---- MODULE Spec2Model ----
(***************************************************************************)
(* A model of the request pipeline of tomato:                              *)
(*   - ClassesController.Prepare and the /classes handlers                 *)
(*     (controllers/classes.go),                                           *)
(*   - the account-lockout state machine exercised by the tests of         *)
(*     package rest (the implementation file is not part of the sources;   *)
(*     its behaviour is taken from the specification and from the tests),  *)
(*   - Destroy.Execute (rest/destroy.go) on a Store of objects with ACLs.  *)
(*                                                                         *)
(* Optional Go values (a nil pointer, a nil map) are sequences of length   *)
(* 0 or 1: <<>> is nil, <<v>> is a value.  A JSON object is a function     *)
(* over BodyKeys whose absent keys map to Absent and whose JSON null       *)
(* members map to Null: Go's  m[k] != nil  is  m[k] \notin {Absent, Null}, *)
(* and delete(m, k) makes the key Absent.                                  *)
(***************************************************************************)
EXTENDS Integers, Sequences, FiniteSets, TLC

VARIABLES
    pc,         \* where the current request is: "idle", "prepared", "done"
    req,        \* the incoming request, o.Ctx.Input (<<>> when idle)
    Info,       \* o.Info
    Auth,       \* o.Auth
    JSONBody,   \* o.JSONBody
    RawBody,    \* o.RawBody: "nil", "body" (the request bytes), "decoded"
    ctHeader,   \* the request's Content-type header (Prepare may rewrite it)
    resp,       \* the response: started, status, o.Data["json"]
    lookups,    \* session tokens handed to rest.GetAuthForSessionToken
    restCalls,  \* the calls made into package rest, in order
    users,      \* the _User class of the Store: username -> object
    now,        \* the clock, in minutes
    lpc,        \* per login attempt: the step of HandleLoginAttempt it is at
    lreq,       \* per login attempt: username and loginSuccessful
    lread,      \* per login attempt: the value last read from the Store
    lnow,       \* per login attempt: the time setLockoutExpiration computed from
    lsnap,      \* per login attempt: the user's record when the attempt began
    lerr,       \* per login attempt: the error returned (<<>> for nil)
    dpc,        \* the step Destroy.Execute is at ("idle": no Destroy)
    destroy,    \* the Destroy: auth, className, query, originalData
    store,      \* the objects of the Store
    dsnap,      \* the Store when the Destroy was made
    dtrace,     \* the calls Execute has made, in order
    dhook,      \* what the BeforeDelete hook answered (<<>>: not run yet)
    dstoreErr,  \* whether the Store reported an error for the delete
    dresult,    \* what Execute returned (<<>> for nil)
    storeCalls  \* the deletes issued to the Store by this Destroy

ctrlVars == <<pc, req, Info, Auth, JSONBody, RawBody, ctHeader, resp, lookups, restCalls>>

lockVars == <<users, now, lpc, lreq, lread, lnow, lsnap, lerr>>

destroyVars ==
    <<dpc, destroy, store, dsnap, dtrace, dhook, dstoreErr, dresult, storeCalls>>

vars == <<ctrlVars, lockVars, destroyVars>>

----------------------------------------------------------------------------
(* Values *)

Absent == "<absent>"
Null == "<null>"

\* config.TConfig as read by Prepare
TConfig == [AppID |-> "app", MasterKey |-> "mk", ClientKey |-> "ck"]

ReservedKeys ==
    {"_ApplicationId", "_ClientKey", "_InstallationId", "_SessionToken",
     "_MasterKey", "_ContentType"}

BodyKeys == ReservedKeys \cup {"_noBody", "_RevocableSession", "base64", "score"}

NoFields == [k \in BodyKeys |-> Absent]

\* a nil types.M
NilJSON == [isNil |-> TRUE, m |-> NoFields]

\* m[k] != nil
NotNil(m, k) == m[k] \notin {Absent, Null}

\* delete(m, k)
Delete(m, k) == [m EXCEPT ![k] = Absent]

\* errs.ErrorMessageToMap(code, msg)
ErrorMessageToMap(code, msg) == [kind |-> "error", code |-> code, error |-> msg]

NoResponse == [started |-> FALSE, status |-> 200, json |-> <<>>]

\* o.Data["json"] = v; o.ServeJSON()  (after an optional SetStatus)
ServeJSON(status, v) == [started |-> TRUE, status |-> status, json |-> <<v>>]

Unauthorized == ServeJSON(403, ErrorMessageToMap("403", "unauthorized"))

----------------------------------------------------------------------------
(* The session store behind rest.GetAuthForSessionToken *)

Sessions ==
    [tok1 |-> [user |-> "u1", installationId |-> "inst9", expired |-> FALSE],
     tok2 |-> [user |-> "u2", installationId |-> "inst9", expired |-> TRUE]]

\* rest.GetAuthForSessionToken(sessionToken, installationID): the token is
\* looked up in the Store; not found or expired is InvalidSessionToken.
GetAuthForSessionToken(sessionToken, installationID) ==
    IF sessionToken \in DOMAIN Sessions /\ ~Sessions[sessionToken].expired
    THEN [err |-> FALSE,
          auth |-> <<[InstallationID |-> Sessions[sessionToken].installationId,
                      IsMaster |-> FALSE,
                      User |-> <<[objectId |-> Sessions[sessionToken].user]>>]>>,
          json |-> <<>>]
    ELSE [err |-> TRUE,
          auth |-> <<>>,
          json |-> <<ErrorMessageToMap("InvalidSessionToken", "invalid session token")>>]

----------------------------------------------------------------------------
(* httpAuth: the Basic authorization header *)

jsKeyPrefix == "javascript-key="

\* strings.ToLower on the first six characters of the header
ToLower(prefix) ==
    CASE prefix = "Basic " -> "basic "
      [] prefix = "BASIC " -> "basic "
      [] OTHER -> prefix

\* decodeBase64 followed by strings.Split(_, ":"): an undecodable string
\* decodes to "", which splits into the single part "".
\* A part is [js, text]: the text, preceded by "javascript-key=" when js.
Credentials(encodedAuth) ==
    IF encodedAuth.valid THEN encodedAuth.parts ELSE <<[js |-> FALSE, text |-> ""]>>

PartString(p) == IF p.js THEN jsKeyPrefix \o p.text ELSE p.text

httpAuth(authorization) ==
    IF authorization.empty THEN <<>>
    ELSE IF ToLower(authorization.prefix) = "basic "
         THEN LET credentials == Credentials(authorization.encoded)
              IN  IF Len(credentials) = 2
                  THEN LET key == credentials[2]
                       IN  <<[appId |-> PartString(credentials[1]),
                              masterKey |-> IF key.js THEN "" ELSE key.text,
                              javascriptKey |-> IF key.js THEN key.text ELSE ""]>>
                  ELSE <<>>
         ELSE <<>>

----------------------------------------------------------------------------
(* Prepare, step by step *)

\* lines 54-59: the X-Parse-* headers
HeaderInfo(r) ==
    [AppID |-> r.hAppID, MasterKey |-> r.hMasterKey, ClientKey |-> r.hClientKey,
     SessionToken |-> r.hSessionToken, InstallationID |-> r.hInstallationID]

\* faulty variant: the application id of the header is kept
WithBasicAuth_KeepsAppID(info, basicAuth) ==
    IF basicAuth = <<>> THEN info
    ELSE LET b == basicAuth[1]
         IN  [info EXCEPT
                !.MasterKey = IF b.masterKey # "" THEN b.masterKey ELSE @,
                !.ClientKey = IF b.javascriptKey # "" THEN b.javascriptKey ELSE @]

\* lines 62-71: Basic authorization overrides the headers
WithBasicAuth(info, basicAuth) ==
    IF basicAuth = <<>> THEN info
    ELSE LET b == basicAuth[1]
         IN  [info EXCEPT
                !.AppID = b.appId,
                !.MasterKey = IF b.masterKey # "" THEN b.masterKey ELSE @,
                !.ClientKey = IF b.javascriptKey # "" THEN b.javascriptKey ELSE @]

\* json.Unmarshal(RequestBody, &object) into a types.M
Unmarshal(body) ==
    [err |-> body.kind = "invalid",
     object |-> IF body.kind = "object" THEN [isNil |-> FALSE, m |-> body.m] ELSE NilJSON]

\* strings.HasPrefix(contentType, "application/json")
IsJSONContentType(contentType) ==
    contentType \in {"application/json", "application/json; charset=utf-8"}

\* lines 73-96: decoding the body
DecodeBody(r) ==
    IF r.body.kind = "nil"
    THEN [invalid |-> FALSE, JSONBody |-> NilJSON, RawBody |-> "nil"]
    ELSE LET u == Unmarshal(r.body)
         IN  IF IsJSONContentType(r.contentType)
             THEN [invalid |-> u.err, JSONBody |-> u.object, RawBody |-> "nil"]
             ELSE [invalid |-> FALSE, JSONBody |-> u.object,
                   RawBody |-> IF u.err THEN "body" ELSE "nil"]

\* lines 98-104
StripNoBody(jb) ==
    IF jb.isNil THEN jb
    ELSE [jb EXCEPT !.m = Delete(Delete(@, "_noBody"), "_RevocableSession")]

\* faulty variant: the field is read but left in the body
TakeField_NoDelete(st, key, field) ==
    IF NotNil(st.m, key)
    THEN [st EXCEPT !.info[field] = st.m[key]]
    ELSE st

\* one "if o.JSONBody[k] != nil { info.f = ...; delete(o.JSONBody, k) }"
TakeField(st, key, field) ==
    IF NotNil(st.m, key)
    THEN [st EXCEPT !.info[field] = st.m[key], !.m = Delete(@, key)]
    ELSE st

\* lines 130-133
TakeContentType(st) ==
    IF NotNil(st.m, "_ContentType")
    THEN [st EXCEPT !.contentType = st.m["_ContentType"], !.m = Delete(@, "_ContentType")]
    ELSE st

\* faulty variant: the body's credentials are read whenever the body carries
\* _ApplicationId, whatever the headers gave
BodyCredentials_Always(info, jb, contentType) ==
    IF ~jb.isNil /\ NotNil(jb.m, "_ApplicationId")
    THEN LET s0 == [info |-> [info EXCEPT !.AppID = jb.m["_ApplicationId"]],
                    m |-> Delete(jb.m, "_ApplicationId"),
                    contentType |-> contentType]
             s1 == TakeField(s0, "_ClientKey", "ClientKey")
             s2 == TakeField(s1, "_InstallationId", "InstallationID")
             s3 == TakeField(s2, "_SessionToken", "SessionToken")
             s4 == TakeField(s3, "_MasterKey", "MasterKey")
             s5 == TakeContentType(s4)
         IN  [unauthorized |-> FALSE, info |-> s5.info,
              JSONBody |-> [isNil |-> FALSE, m |-> s5.m],
              contentType |-> s5.contentType]
    ELSE [unauthorized |-> info.AppID = "", info |-> info, JSONBody |-> jb,
          contentType |-> contentType]

\* lines 106-141: the credentials of the body, read when no application id
\* came from the headers
BodyCredentials(info, jb, contentType) ==
    IF info.AppID # ""
    THEN [unauthorized |-> FALSE, info |-> info, JSONBody |-> jb, contentType |-> contentType]
    ELSE IF ~jb.isNil /\ NotNil(jb.m, "_ApplicationId")
         THEN LET s0 == [info |-> [info EXCEPT !.AppID = jb.m["_ApplicationId"]],
                         m |-> Delete(jb.m, "_ApplicationId"),
                         contentType |-> contentType]
                  s1 == TakeField(s0, "_ClientKey", "ClientKey")
                  s2 == TakeField(s1, "_InstallationId", "InstallationID")
                  s3 == TakeField(s2, "_SessionToken", "SessionToken")
                  s4 == TakeField(s3, "_MasterKey", "MasterKey")
                  s5 == TakeContentType(s4)
              IN  [unauthorized |-> FALSE, info |-> s5.info,
                   JSONBody |-> [isNil |-> FALSE, m |-> s5.m],
                   contentType |-> s5.contentType]
         ELSE [unauthorized |-> TRUE, info |-> info, JSONBody |-> jb,
               contentType |-> contentType]

\* base64.StdEncoding.DecodeString succeeds
ValidBase64(s) == s \in {"aGk="}

\* lines 147-153
FileUpload(jb, raw) ==
    IF ~jb.isNil /\ NotNil(jb.m, "base64") /\ ValidBase64(jb.m["base64"])
    THEN "decoded" ELSE raw

\* strings.HasSuffix(url, "/login/"); a URL is the sequence of its path
\* segments, a trailing "" standing for a trailing slash
IsLoginURL(url) ==
    Len(url) >= 2 /\ url[Len(url)] = "" /\ url[Len(url) - 1] = "login"

\* faulty variant: only a missing application id is refused
AppIDMismatch_OnlyEmpty(info) == info.AppID = ""

\* line 158
AppIDMismatch(info) == info.AppID # TConfig.AppID

\* faulty variant: the master key counts only beside a valid client key
IsMasterKey_NeedsClientKey(info) ==
    info.MasterKey = TConfig.MasterKey /\ info.ClientKey = TConfig.ClientKey

\* line 164
IsMasterKey(info) == info.MasterKey = TConfig.MasterKey

\* faulty variant: a missing client key is let through
ClientKeyMismatch_EmptyAllowed(info) ==
    info.ClientKey # TConfig.ClientKey /\ info.ClientKey # ""

\* line 168
ClientKeyMismatch(info) == info.ClientKey # TConfig.ClientKey

\* faulty variant: the token is kept on the login endpoint
ClearLoginToken_Never(info, url) == info

\* lines 174-178
ClearLoginToken(info, url) ==
    IF IsLoginURL(url) THEN [info EXCEPT !.SessionToken = ""] ELSE info

\* faulty variant: the anonymous Auth loses the installation id
SessionAuth_NoInstallation(info) ==
    IF info.SessionToken = ""
    THEN [Auth |-> <<[InstallationID |-> "", IsMaster |-> FALSE, User |-> <<>>]>>,
          resp |-> NoResponse, lookups |-> <<>>]
    ELSE LET r == GetAuthForSessionToken(info.SessionToken, info.InstallationID)
         IN  [Auth |-> r.auth,
              resp |-> IF r.err THEN ServeJSON(200, r.json[1]) ELSE NoResponse,
              lookups |-> <<info.SessionToken>>]

\* faulty variant: a failed lookup falls back to the anonymous Auth
SessionAuth_IgnoreError(info) ==
    LET anonymous == <<[InstallationID |-> info.InstallationID, IsMaster |-> FALSE,
                        User |-> <<>>]>>
    IN  IF info.SessionToken = ""
        THEN [Auth |-> anonymous, resp |-> NoResponse, lookups |-> <<>>]
        ELSE LET r == GetAuthForSessionToken(info.SessionToken, info.InstallationID)
             IN  [Auth |-> IF r.err THEN anonymous ELSE r.auth,
                  resp |-> NoResponse,
                  lookups |-> <<info.SessionToken>>]

\* lines 179-190
SessionAuth(info) ==
    IF info.SessionToken = ""
    THEN [Auth |-> <<[InstallationID |-> info.InstallationID, IsMaster |-> FALSE,
                     User |-> <<>>]>>,
          resp |-> NoResponse, lookups |-> <<>>]
    ELSE LET r == GetAuthForSessionToken(info.SessionToken, info.InstallationID)
         IN  [Auth |-> r.auth,
              resp |-> IF r.err THEN ServeJSON(200, r.json[1]) ELSE NoResponse,
              lookups |-> <<info.SessionToken>>]

\* lines 155-190: o.Info is set, then the keys are checked in order
Authorize(info, url) ==
    IF AppIDMismatch(info)
    THEN [Info |-> <<info>>, Auth |-> <<>>, resp |-> Unauthorized, lookups |-> <<>>]
    ELSE IF IsMasterKey(info)
    THEN [Info |-> <<info>>,
          Auth |-> <<[InstallationID |-> info.InstallationID, IsMaster |-> TRUE,
                     User |-> <<>>]>>,
          resp |-> NoResponse, lookups |-> <<>>]
    ELSE IF ClientKeyMismatch(info)
    THEN [Info |-> <<info>>, Auth |-> <<>>, resp |-> Unauthorized, lookups |-> <<>>]
    ELSE LET i == ClearLoginToken(info, url)
             s == SessionAuth(i)
         IN  [Info |-> <<i>>, Auth |-> s.Auth, resp |-> s.resp, lookups |-> s.lookups]

\* Prepare as a function of the request: the controller's fields and the
\* response when it returns
PrepareResult(r) ==
    LET info0 == WithBasicAuth(HeaderInfo(r), httpAuth(r.authorization))
        d == DecodeBody(r)
    IN  IF d.invalid
        THEN [Info |-> <<>>, Auth |-> <<>>, JSONBody |-> NilJSON, RawBody |-> "nil",
              contentType |-> r.contentType,
              resp |-> ServeJSON(200, ErrorMessageToMap("InvalidJSON", "invalid JSON")),
              lookups |-> <<>>]
        ELSE LET jb == StripNoBody(d.JSONBody)
                 b == BodyCredentials(info0, jb, r.contentType)
             IN  IF b.unauthorized
                 THEN [Info |-> <<>>, Auth |-> <<>>, JSONBody |-> b.JSONBody,
                       RawBody |-> d.RawBody, contentType |-> b.contentType,
                       resp |-> Unauthorized, lookups |-> <<>>]
                 ELSE LET a == Authorize(b.info, r.url)
                      IN  [Info |-> a.Info, Auth |-> a.Auth, JSONBody |-> b.JSONBody,
                           RawBody |-> FileUpload(b.JSONBody, d.RawBody),
                           contentType |-> b.contentType,
                           resp |-> a.resp, lookups |-> a.lookups]

----------------------------------------------------------------------------
(* The requests explored *)

Part(js, text) == [js |-> js, text |-> text]

NoAuthorization == [empty |-> TRUE, prefix |-> "", encoded |-> [valid |-> FALSE, parts |-> <<>>]]

Basic(prefix, parts) ==
    [empty |-> FALSE, prefix |-> prefix, encoded |-> [valid |-> TRUE, parts |-> parts]]

Authorizations ==
    { NoAuthorization,
      Basic("Basic ", <<Part(FALSE, "app"), Part(FALSE, "mk")>>),
      Basic("basic ", <<Part(FALSE, "app"), Part(TRUE, "ck")>>),
      Basic("basic ", <<Part(FALSE, "bad"), Part(FALSE, "mk")>>),
      Basic("Bearer", <<Part(FALSE, "app"), Part(FALSE, "mk")>>),
      [empty |-> FALSE, prefix |-> "basic ", encoded |-> [valid |-> FALSE, parts |-> <<>>]] }

\* authorization headers for the credential rules: none, well-formed ones
\* (with an empty application id, an empty key, an empty javascript key),
\* another scheme, an undecodable one, and ones of one and of three parts
CredentialAuthorizations ==
    { NoAuthorization,
      Basic("Basic ", <<Part(FALSE, "app"), Part(FALSE, "mk")>>),
      Basic("basic ", <<Part(FALSE, "app"), Part(TRUE, "ck")>>),
      Basic("BASIC ", <<Part(FALSE, "bad"), Part(FALSE, "mk")>>),
      Basic("basic ", <<Part(FALSE, ""), Part(FALSE, "mk")>>),
      Basic("basic ", <<Part(FALSE, "app"), Part(FALSE, "")>>),
      Basic("basic ", <<Part(FALSE, "app"), Part(TRUE, "")>>),
      Basic("Bearer", <<Part(FALSE, "app"), Part(FALSE, "mk")>>),
      Basic("basic ", <<Part(FALSE, "app")>>),
      Basic("basic ", <<Part(FALSE, "app"), Part(FALSE, "mk"), Part(FALSE, "x")>>),
      [empty |-> FALSE, prefix |-> "basic ", encoded |-> [valid |-> FALSE, parts |-> <<>>]] }

\* bodies for the credential rules: none, and objects that carry the master
\* key, the client key, the session token of user u1 and an installation id,
\* with and without _ApplicationId
CredentialBodies ==
    { [kind |-> "nil", m |-> NoFields] }
    \cup { [kind |-> "object",
            m |-> [k \in BodyKeys |->
                     CASE k = "_ApplicationId" -> a
                       [] k = "_MasterKey" -> mk
                       [] k = "_ClientKey" -> "ck"
                       [] k = "_SessionToken" -> "tok1"
                       [] k = "_InstallationId" -> "inst2"
                       [] k = "score" -> "5"
                       [] OTHER -> Absent]] :
             a \in {Absent, "app"}, mk \in {Absent, "mk"} }

CredentialRequests ==
    { [hAppID |-> a, hMasterKey |-> mk, hClientKey |-> ck, hSessionToken |-> st,
       hInstallationID |-> "inst1", authorization |-> az,
       contentType |-> "application/json", body |-> b,
       url |-> <<"v1", "classes", "Game">>] :
        a \in {"", "app", "bad"}, mk \in {"", "mk"}, ck \in {"", "ck"},
        st \in {"", "tok1"}, az \in CredentialAuthorizations, b \in CredentialBodies }

\* {"score": "5"}
PlainObject == [NoFields EXCEPT !["score"] = "5"]

ObjectBodies ==
    { [kind |-> "object",
       m |-> [k \in BodyKeys |->
                CASE k = "_ApplicationId" -> a
                  [] k = "_MasterKey" -> mk
                  [] k = "_ClientKey" -> ck
                  [] k = "score" -> "5"
                  [] OTHER -> IF ~extras THEN Absent
                              ELSE CASE k = "_InstallationId" -> "inst2"
                                     [] k = "_SessionToken" -> "tok2"
                                     [] k = "_ContentType" -> "text/plain"
                                     [] k = "base64" -> "aGk="
                                     [] OTHER -> "1"]] :
        a \in {Absent, Null, "app", "bad"}, mk \in {Absent, "mk"},
        ck \in {Absent, Null, "ck"}, extras \in BOOLEAN }

Bodies ==
    {[kind |-> k, m |-> NoFields] : k \in {"nil", "invalid", "null"}} \cup ObjectBodies

\* the (Content-type, body) pairs: the Content-type only matters to a body
\* that is not a JSON object
BodyInputs ==
    ({"application/json"} \X Bodies)
    \cup ({"text/plain"} \X {b \in Bodies : b.kind # "object" \/ b.m = PlainObject})

URLs == { <<"v1", "classes", "Game">>, <<"v1", "login", "">>, <<"v1", "login">> }

Requests ==
    { [hAppID |-> a, hMasterKey |-> mk, hClientKey |-> ck, hSessionToken |-> st,
       hInstallationID |-> "inst1", authorization |-> az, contentType |-> cb[1],
       body |-> cb[2], url |-> u] :
        a \in {"", "app", "bad"}, mk \in {"", "mk"}, ck \in {"", "ck"},
        st \in {"", "tok1", "tok2"}, az \in Authorizations,
        cb \in BodyInputs, u \in URLs }

----------------------------------------------------------------------------
(* Actions *)

InitController ==
    /\ pc = "idle"
    /\ req = <<>>
    /\ Info = <<>>
    /\ Auth = <<>>
    /\ JSONBody = NilJSON
    /\ RawBody = "nil"
    /\ ctHeader = ""
    /\ resp = NoResponse
    /\ lookups = <<>>
    /\ restCalls = <<>>

\* ClassesController.Prepare on a fresh controller, for a request of rs
Prepare(rs) ==
    /\ pc = "idle"
    /\ \E r \in rs :
         LET p == PrepareResult(r)
         IN  /\ req' = <<r>>
             /\ Info' = p.Info
             /\ Auth' = p.Auth
             /\ JSONBody' = p.JSONBody
             /\ RawBody' = p.RawBody
             /\ ctHeader' = p.contentType
             /\ resp' = p.resp
             /\ lookups' = p.lookups
    /\ pc' = "prepared"
    /\ UNCHANGED <<restCalls, lockVars, destroyVars>>

\* The router runs the handler after Prepare only while no response has been
\* written, and routes the /classes URLs to the handlers below.
Routed ==
    /\ pc = "prepared"
    /\ ~resp.started
    /\ req[1].url[2] = "classes"

\* o.Ctx.Input.Param(":className")
ClassName == req[1].url[3]

\* errs.ErrorToMap(err) for an error returned by package rest
RestError == ErrorMessageToMap("rest", "error returned by rest")

Call(fn, body, objectId) ==
    [fn |-> fn, auth |-> Auth[1], className |-> ClassName, objectId |-> objectId,
     body |-> body]

Finish(r) ==
    /\ resp' = r
    /\ pc' = "done"
    /\ UNCHANGED <<req, Info, Auth, JSONBody, RawBody, ctHeader, lookups, lockVars, destroyVars>>

EmptyBody == ServeJSON(200, ErrorMessageToMap("InvalidJSON", "request body is empty"))

\* HandleCreate; err: whether rest.Create returns an error
HandleCreate ==
    /\ Routed
    /\ IF JSONBody.isNil
       THEN /\ Finish(EmptyBody)
            /\ UNCHANGED restCalls
       ELSE /\ restCalls' = Append(restCalls, Call("Create", JSONBody, ""))
            /\ \E err \in BOOLEAN :
                 Finish(IF err THEN ServeJSON(200, RestError)
                        ELSE ServeJSON(201, [kind |-> "created"]))

\* faulty variant: the body is not checked before rest.Update
HandleUpdate_NoBodyCheck ==
    /\ Routed
    /\ restCalls' = Append(restCalls, Call("Update", JSONBody, "id1"))
    /\ \E err \in BOOLEAN :
         Finish(IF err THEN ServeJSON(200, RestError)
                ELSE ServeJSON(200, [kind |-> "updated"]))

\* HandleUpdate
HandleUpdate ==
    /\ Routed
    /\ IF JSONBody.isNil
       THEN /\ Finish(EmptyBody)
            /\ UNCHANGED restCalls
       ELSE /\ restCalls' = Append(restCalls, Call("Update", JSONBody, "id1"))
            /\ \E err \in BOOLEAN :
                 Finish(IF err THEN ServeJSON(200, RestError)
                        ELSE ServeJSON(200, [kind |-> "updated"]))

\* HandleDelete
HandleDelete ==
    /\ Routed
    /\ restCalls' = Append(restCalls, Call("Delete", NilJSON, "id1"))
    /\ \E err \in BOOLEAN :
         Finish(IF err THEN ServeJSON(200, RestError)
                ELSE ServeJSON(200, [kind |-> "empty"]))

\* a recovered panic: the framework answers 500
Panic == [started |-> TRUE, status |-> 500, json |-> <<>>]

\* faulty variant: another user's stored session token is left in the row
RedactGet_KeepsStored(result) ==
    IF ClassName = "_User"
    THEN IF Auth[1].User # <<>> /\ result.objectId = Auth[1].User[1].objectId
         THEN [result EXCEPT !.sessionToken = Info[1].SessionToken]
         ELSE result
    ELSE result

\* lines 299-305: the row of a Get, its session token redacted
RedactGet(result) ==
    IF ClassName = "_User"
    THEN IF Auth[1].User # <<>> /\ result.objectId = Auth[1].User[1].objectId
         THEN [result EXCEPT !.sessionToken = Info[1].SessionToken]
         ELSE [result EXCEPT !.sessionToken = Absent]
    ELSE result

\* lines 290-308, given the response of rest.Get
GetAnswer(response) ==
    IF response.err THEN ServeJSON(200, RestError)
    ELSE IF response.results.isNil /\ Len(response.results.rows) = 0
    THEN ServeJSON(200, ErrorMessageToMap("ObjectNotFound", "Object not found."))
    ELSE IF Len(response.results.rows) = 0
    THEN Panic
    ELSE ServeJSON(200, [kind |-> "object", row |-> RedactGet(response.results.rows[1])])

\* HandleGet; responses: what rest.Get may return
HandleGet(responses) ==
    /\ Routed
    /\ restCalls' = Append(restCalls, Call("Get", NilJSON, "id1"))
    /\ \E response \in responses : Finish(GetAnswer(response))

\* strconv.Atoi succeeds
IsInt(s) == s \in {"0", "3", "10"}

\* json.Unmarshal of the where parameter succeeds
IsJSONObjectText(s) == s \in {"{}", "{\"score\":\"5\"}"}

\* lines 404-409: a row of a Find
RedactFind(result) ==
    IF result.sessionToken \notin {Absent, Null} /\ Info[1].SessionToken # ""
    THEN [result EXCEPT !.sessionToken = Info[1].SessionToken]
    ELSE result

\* utils.HasResults(response)
HasResults(response) == ~response.results.isNil /\ Len(response.results.rows) > 0

\* lines 397-413, given the response of rest.Find
FindAnswer(response) ==
    IF response.err THEN ServeJSON(200, RestError)
    ELSE ServeJSON(200,
            [kind |-> "results",
             results |-> IF HasResults(response)
                         THEN [response.results EXCEPT
                                 !.rows = [i \in DOMAIN @ |-> RedactFind(@[i])]]
                         ELSE response.results])

\* HandleFind; params: the query parameters, responses: what rest.Find may return
HandleFind(params, responses) ==
    /\ Routed
    /\ \E q \in params :
         IF q.skip # "" /\ ~IsInt(q.skip)
         THEN /\ Finish(ServeJSON(200, ErrorMessageToMap("InvalidQuery", "skip should be int")))
              /\ UNCHANGED restCalls
         ELSE IF q.limit # "" /\ ~IsInt(q.limit)
         THEN /\ Finish(ServeJSON(200, ErrorMessageToMap("InvalidQuery", "limit should be int")))
              /\ UNCHANGED restCalls
         ELSE IF q.where # "" /\ ~IsJSONObjectText(q.where)
         THEN /\ Finish(ServeJSON(200, ErrorMessageToMap("InvalidJSON", "where should be valid json")))
              /\ UNCHANGED restCalls
         ELSE /\ restCalls' = Append(restCalls, Call("Find", NilJSON, ""))
              /\ \E response \in responses : Finish(FindAnswer(response))

----------------------------------------------------------------------------
(* What package rest may return to the handlers *)

Row(id, token) == [objectId |-> id, sessionToken |-> token]

Results(isNil, rows) == [isNil |-> isNil, rows |-> rows]

RestFailure == [err |-> TRUE, results |-> Results(TRUE, <<>>)]

GetResponses ==
    { RestFailure,
      [err |-> FALSE, results |-> Results(TRUE, <<>>)],
      [err |-> FALSE, results |-> Results(FALSE, <<>>)],
      [err |-> FALSE, results |-> Results(FALSE, <<Row("u1", "stored")>>)] }

FindResponses ==
    { RestFailure,
      [err |-> FALSE, results |-> Results(FALSE, <<>>)],
      [err |-> FALSE, results |-> Results(FALSE, <<Row("u1", "stored"), Row("u2", Absent)>>)] }

\* requests of a Get or a Find: with or without the master key, with or
\* without the session token of user u1, on _User and on another class
QueryRequests ==
    { [hAppID |-> "app", hMasterKey |-> mk, hClientKey |-> "ck", hSessionToken |-> st,
       hInstallationID |-> "inst1", authorization |-> NoAuthorization,
       contentType |-> "application/json", body |-> [kind |-> "nil", m |-> NoFields],
       url |-> <<"v1", "classes", class>>] :
        mk \in {"", "mk"}, st \in {"", "tok1"}, class \in {"_User", "Game"} }

\* rows of two users, with and without a stored session token
QueryRows == { Row(id, token) : id \in {"u1", "u2"}, token \in {Absent, "stored"} }

QueryGetResponses ==
    { RestFailure,
      [err |-> FALSE, results |-> Results(TRUE, <<>>)],
      [err |-> FALSE, results |-> Results(FALSE, <<>>)] }
    \cup { [err |-> FALSE, results |-> Results(FALSE, <<row>>)] : row \in QueryRows }

QueryFindResponses ==
    { RestFailure,
      [err |-> FALSE, results |-> Results(TRUE, <<>>)],
      [err |-> FALSE, results |-> Results(FALSE, <<>>)] }
    \cup { [err |-> FALSE, results |-> Results(FALSE, <<row>>)] : row \in QueryRows }
    \cup { [err |-> FALSE, results |-> Results(FALSE, <<r1, r2>>)] :
             r1 \in {Row("u1", token) : token \in {Absent, "stored"}},
             r2 \in {Row("u2", token) : token \in {Absent, "stored"}} }

FindParams ==
    { [skip |-> "", limit |-> "", where |-> ""],
      [skip |-> "x", limit |-> "10", where |-> "{}"],
      [skip |-> "3", limit |-> "x", where |-> "{}"],
      [skip |-> "3", limit |-> "10", where |-> "{"] }

----------------------------------------------------------------------------
(* Account lockout: the login-attempt state machine of package rest *)

\* config.TConfig.AccountLockoutThreshold
Threshold == 3

\* config.TConfig.AccountLockoutDuration, in minutes
Duration == 5

\* the clock stops at MaxNow; no attempt starts once a counter is at MaxCount
MaxNow == 7

MaxCount == 5

Procs == {"p1", "p2", "p3"}

Usernames == {"joe", "ann"}

\* the usernames login is attempted for
AttemptUsers == {"joe"}

\* an object of _User: _failed_login_count and _account_lockout_expires_at
\* are <<>> when the field is absent
User(id, name, count, expiresAt) ==
    [objectId |-> id, username |-> name, password |-> "secret",
     failedLoginCount |-> count, lockoutExpiresAt |-> expiresAt]

\* the error of a locked account, naming the configured duration
LockedError ==
    [code |-> "ObjectNotFound",
     error |-> "Your account is locked due to multiple failed login attempts. Please try again after",
     minutes |-> Duration]

\* faulty variant: the count is not part of the query
IsLocked_IgnoresCount(u, t) ==
    /\ u.lockoutExpiresAt # <<>>
    /\ u.lockoutExpiresAt[1] > t

\* faulty variant: the account is still locked at the expiry itself
IsLocked_AtExpiry(u, t) ==
    /\ u.lockoutExpiresAt # <<>>
    /\ u.lockoutExpiresAt[1] >= t
    /\ u.failedLoginCount # <<>>
    /\ u.failedLoginCount[1] >= Threshold

\* the query of notLocked matches: the expiry is later than t and the count
\* is at least the threshold
IsLocked(u, t) ==
    /\ u.lockoutExpiresAt # <<>>
    /\ u.lockoutExpiresAt[1] > t
    /\ u.failedLoginCount # <<>>
    /\ u.failedLoginCount[1] >= Threshold

\* notLocked: the error, or <<>>
notLocked(u, t) == IF IsLocked(u, t) THEN <<LockedError>> ELSE <<>>

\* isFailedLoginCountSet
isFailedLoginCountSet(u) == u.failedLoginCount # <<>>

\* setFailedLoginCount(value)
setFailedLoginCount(u, value) == [u EXCEPT !.failedLoginCount = <<value>>]

\* faulty variant: the count must exceed the threshold
setLockoutExpiration_Above(u, t) ==
    IF u.failedLoginCount # <<>> /\ u.failedLoginCount[1] > Threshold
    THEN [u EXCEPT !.lockoutExpiresAt = <<t + Duration>>]
    ELSE u

\* setLockoutExpiration at time t: an update of the user whose count has
\* reached the threshold
setLockoutExpiration(u, t) ==
    IF u.failedLoginCount # <<>> /\ u.failedLoginCount[1] >= Threshold
    THEN [u EXCEPT !.lockoutExpiresAt = <<t + Duration>>]
    ELSE u

Name(p) == lreq[p].username

Goto(p, step) == lpc' = [lpc EXCEPT ![p] = step]

\* HandleLoginAttempt(loginSuccessful) begins
LoginAttempt(p) ==
    /\ lpc[p] = "idle"
    /\ \E name \in AttemptUsers, ok \in BOOLEAN :
         /\ IF users[name].failedLoginCount = <<>> THEN TRUE
            ELSE users[name].failedLoginCount[1] < MaxCount
         /\ lreq' = [lreq EXCEPT ![p] = [username |-> name, loginSuccessful |-> ok]]
         /\ lsnap' = [lsnap EXCEPT ![p] = users[name]]
    /\ lerr' = [lerr EXCEPT ![p] = <<>>]
    /\ Goto(p, "notLocked")
    /\ UNCHANGED <<users, now, lread, lnow, ctrlVars, destroyVars>>

\* faulty variant: a successful login resets the count whatever notLocked said
NotLocked_ResetFirst(p) ==
    /\ lpc[p] = "notLocked"
    /\ lerr' = [lerr EXCEPT ![p] = notLocked(users[Name(p)], now)]
    /\ Goto(p, IF lreq[p].loginSuccessful THEN "setFailedLoginCount"
               ELSE "isFailedLoginCountSet")
    /\ UNCHANGED <<users, now, lreq, lread, lnow, lsnap, ctrlVars, destroyVars>>

\* HandleLoginAttempt: notLocked first, then by loginSuccessful
NotLocked(p) ==
    /\ lpc[p] = "notLocked"
    /\ LET err == notLocked(users[Name(p)], now)
       IN  /\ lerr' = [lerr EXCEPT ![p] = err]
           /\ Goto(p, IF err # <<>> THEN "done"
                      ELSE IF lreq[p].loginSuccessful THEN "setFailedLoginCount"
                      ELSE "isFailedLoginCountSet")
    /\ UNCHANGED <<users, now, lreq, lread, lnow, lsnap, ctrlVars, destroyVars>>

\* the successful login: setFailedLoginCount(0)
ResetCount(p) ==
    /\ lpc[p] = "setFailedLoginCount"
    /\ users' = [users EXCEPT ![Name(p)] = setFailedLoginCount(@, 0)]
    /\ Goto(p, "done")
    /\ UNCHANGED <<now, lreq, lread, lnow, lsnap, lerr, ctrlVars, destroyVars>>

\* initFailedLoginCount reads isFailedLoginCountSet
ReadIsSet(p) ==
    /\ lpc[p] = "isFailedLoginCountSet"
    /\ lread' = [lread EXCEPT ![p] = IF isFailedLoginCountSet(users[Name(p)]) THEN 1 ELSE 0]
    /\ Goto(p, "initFailedLoginCount")
    /\ UNCHANGED <<users, now, lreq, lnow, lsnap, lerr, ctrlVars, destroyVars>>

\* initFailedLoginCount: setFailedLoginCount(0) when the count was not set;
\* the write is conditional on the count being unset still
InitCount(p) ==
    /\ lpc[p] = "initFailedLoginCount"
    /\ users' = IF lread[p] = 0 /\ ~isFailedLoginCountSet(users[Name(p)])
                THEN [users EXCEPT ![Name(p)] = setFailedLoginCount(@, 0)]
                ELSE users
    /\ Goto(p, "incrementRead")
    /\ UNCHANGED <<now, lreq, lread, lnow, lsnap, lerr, ctrlVars, destroyVars>>

\* incrementFailedLoginCount: the read of the read-modify-write
IncrementRead(p) ==
    /\ lpc[p] = "incrementRead"
    /\ lread' = [lread EXCEPT ![p] = users[Name(p)].failedLoginCount[1]]
    /\ Goto(p, "incrementWrite")
    /\ UNCHANGED <<users, now, lreq, lnow, lsnap, lerr, ctrlVars, destroyVars>>

\* faulty variant: the write does not compare
IncrementWrite_Blind(p) ==
    /\ lpc[p] = "incrementWrite"
    /\ users' = [users EXCEPT ![Name(p)] = setFailedLoginCount(@, lread[p] + 1)]
    /\ Goto(p, "setLockoutExpiration")
    /\ UNCHANGED <<now, lreq, lread, lnow, lsnap, lerr, ctrlVars, destroyVars>>

\* incrementFailedLoginCount: the write, an optimistic compare-and-set that
\* goes back to the read when the count is no longer the one read
IncrementWrite(p) ==
    /\ lpc[p] = "incrementWrite"
    /\ IF users[Name(p)].failedLoginCount = <<lread[p]>>
       THEN /\ users' = [users EXCEPT ![Name(p)] = setFailedLoginCount(@, lread[p] + 1)]
            /\ Goto(p, "setLockoutExpiration")
       ELSE /\ users' = users
            /\ Goto(p, "incrementRead")
    /\ UNCHANGED <<now, lreq, lread, lnow, lsnap, lerr, ctrlVars, destroyVars>>

\* setLockoutExpiration
SetExpiration(p) ==
    /\ lpc[p] = "setLockoutExpiration"
    /\ lnow' = [lnow EXCEPT ![p] = now]
    /\ users' = [users EXCEPT ![Name(p)] = setLockoutExpiration(@, now)]
    /\ Goto(p, "done")
    /\ UNCHANGED <<now, lreq, lread, lsnap, lerr, ctrlVars, destroyVars>>

\* HandleLoginAttempt returns
Return(p) ==
    /\ lpc[p] = "done"
    /\ Goto(p, "idle")
    /\ UNCHANGED <<users, now, lreq, lread, lnow, lsnap, lerr, ctrlVars, destroyVars>>

\* a minute passes
Tick ==
    /\ now < MaxNow
    /\ now' = now + 1
    /\ UNCHANGED <<users, lpc, lreq, lread, lnow, lsnap, lerr, ctrlVars, destroyVars>>

Attempt(p) ==
    \/ LoginAttempt(p)
    \/ NotLocked(p)
    \/ ResetCount(p)
    \/ ReadIsSet(p)
    \/ InitCount(p)
    \/ IncrementRead(p)
    \/ IncrementWrite(p)
    \/ SetExpiration(p)
    \/ Return(p)

\* the records the tests create for joe
Fixtures ==
    { User("01", "joe", c, e) :
        c \in {<<>>, <<0>>, <<1>>, <<Threshold>>},
        e \in {<<>>, <<Duration>>, <<0 - Duration>>} }

InitLockout(joes) ==
    /\ users \in { [n \in Usernames |-> IF n = "joe" THEN j ELSE User("02", "ann", <<>>, <<>>)] :
                     j \in joes }
    /\ now = 0
    /\ lpc = [p \in Procs |-> "idle"]
    /\ lreq = [p \in Procs |-> [username |-> "joe", loginSuccessful |-> FALSE]]
    /\ lread = [p \in Procs |-> 0]
    /\ lnow = [p \in Procs |-> 0]
    /\ lsnap = [p \in Procs |-> User("01", "joe", <<>>, <<>>)]
    /\ lerr = [p \in Procs |-> <<>>]

----------------------------------------------------------------------------
(* Destroy (rest/destroy.go) *)

\* an object of the Store; write is the set of ids and roles its ACL grants
\* write to ("*" is public write)
Object(id, class, write) == [objectId |-> id, className |-> class, write |-> write]

Objects ==
    { Object("o1", "Game", {"*"}),
      Object("o2", "Game", {"u1"}),
      Object("o3", "Game", {"role:admin"}),
      Object("o4", "Game", {}),
      Object("s1", "_Session", {"u2"}) }

\* the roles Auth.GetUserRoles resolves for a user
RolesOf(id) == IF id = "u1" THEN <<"role:admin">> ELSE <<>>

DestroyAuth(isMaster, user) ==
    [IsMaster |-> isMaster, User |-> user, UserRoles |-> <<>>]

DestroyAuths ==
    { DestroyAuth(TRUE, <<>>),
      DestroyAuth(FALSE, <<>>),
      DestroyAuth(FALSE, <<[objectId |-> "u1"]>>),
      DestroyAuth(FALSE, <<[objectId |-> "u2"]>>) }

\* NewDestroy(auth, className, query, originalData)
Destroys ==
    [auth : DestroyAuths,
     className : {"Game", "_Session"},
     query : [objectId : {"o1", "o2", "o3", "o4", "s1", "o9"}],
     originalData : {<<>>, <<[sessionToken |-> "tok1"]>>}]

Range(s) == {s[i] : i \in 1..Len(s)}

\* the objects a delete by query removes: those of the class that match the
\* query (a missing objectId constrains nothing) and, when the options carry
\* an acl, whose ACL grants write to one of its entries
Matching(objects, call) ==
    { o \in objects :
        /\ o.className = call.className
        /\ call.query.objectId \in {Absent, o.objectId}
        /\ call.options.hasACL => o.write \cap Range(call.options.acl) # {} }

\* orm.Destroy(className, query, options)
OrmDestroy(objects, call) == objects \ Matching(objects, call)

\* faulty variant: Execute deletes before it runs the BeforeDelete hook
ExecuteStep_DeleteFirst(step) ==
    CASE step = "handleSession" -> "runDestroy"
      [] step = "runDestroy" -> "runBeforeTrigger"
      [] step = "runBeforeTrigger" -> "handleUserRoles"
      [] step = "handleUserRoles" -> "runAfterTrigger"
      [] step = "runAfterTrigger" -> "done"

\* Execute: the step that follows step; no step's result is looked at
ExecuteStep(step) ==
    CASE step = "handleSession" -> "runBeforeTrigger"
      [] step = "runBeforeTrigger" -> "handleUserRoles"
      [] step = "handleUserRoles" -> "runDestroy"
      [] step = "runDestroy" -> "runAfterTrigger"
      [] step = "runAfterTrigger" -> "done"

\* faulty variant: a caller without a user gets no acl
DestroyOptions_UsersOnly(auth) ==
    IF ~auth.IsMaster /\ auth.User # <<>>
    THEN [hasACL |-> TRUE,
          acl |-> <<"*">> \o <<auth.User[1].objectId>> \o auth.UserRoles]
    ELSE [hasACL |-> FALSE, acl |-> <<>>]

\* runDestroy: the options of the delete
DestroyOptions(auth) ==
    IF ~auth.IsMaster
    THEN [hasACL |-> TRUE,
          acl |-> IF auth.User # <<>>
                  THEN <<"*">> \o <<auth.User[1].objectId>> \o auth.UserRoles
                  ELSE <<"*">>]
    ELSE [hasACL |-> FALSE, acl |-> <<>>]

\* faulty variant: the delete is issued without the query
DestroyCall_NoQuery(dd) ==
    [className |-> dd.className, query |-> [objectId |-> Absent],
     options |-> DestroyOptions(dd.auth)]

\* runDestroy: the arguments of orm.Destroy
DestroyCall(dd) ==
    [className |-> dd.className, query |-> dd.query,
     options |-> DestroyOptions(dd.auth)]

InitDestroy(stores) ==
    /\ dpc = "idle"
    /\ destroy = <<>>
    /\ store \in stores
    /\ dsnap = store
    /\ dtrace = <<>>
    /\ dhook = <<>>
    /\ dstoreErr = FALSE
    /\ dresult = <<>>
    /\ storeCalls = <<>>

\* NewDestroy, and Execute is called
NewDestroy(ds) ==
    /\ dpc = "idle"
    /\ \E dd \in ds : destroy' = <<dd>>
    /\ dsnap' = store
    /\ dtrace' = <<>>
    /\ dhook' = <<>>
    /\ dstoreErr' = FALSE
    /\ dresult' = <<>>
    /\ storeCalls' = <<>>
    /\ dpc' = "handleSession"
    /\ UNCHANGED <<store, ctrlVars, lockVars>>

\* handleSession: nothing is done yet, for _Session or any other class
handleSession ==
    /\ dpc = "handleSession"
    /\ dtrace' = Append(dtrace, "handleSession")
    /\ dpc' = ExecuteStep("handleSession")
    /\ UNCHANGED <<destroy, store, dsnap, dhook, dstoreErr, dresult, storeCalls,
                   ctrlVars, lockVars>>

\* runBeforeTrigger: RunTrigger runs the hook; what it answers is dropped
runBeforeTrigger ==
    /\ dpc = "runBeforeTrigger"
    /\ \E answer \in {"nil", "error"} : dhook' = <<answer>>
    /\ dtrace' = Append(dtrace, "BeforeDelete")
    /\ dpc' = ExecuteStep("runBeforeTrigger")
    /\ UNCHANGED <<destroy, store, dsnap, dstoreErr, dresult, storeCalls,
                   ctrlVars, lockVars>>

\* handleUserRoles: auth.GetUserRoles() unless master
handleUserRoles ==
    /\ dpc = "handleUserRoles"
    /\ IF ~destroy[1].auth.IsMaster
       THEN /\ destroy' = <<[destroy[1] EXCEPT !.auth.UserRoles =
                               IF destroy[1].auth.User = <<>> THEN <<>>
                               ELSE RolesOf(destroy[1].auth.User[1].objectId)]>>
            /\ dtrace' = Append(dtrace, "GetUserRoles")
       ELSE UNCHANGED <<destroy, dtrace>>
    /\ dpc' = ExecuteStep("handleUserRoles")
    /\ UNCHANGED <<store, dsnap, dhook, dstoreErr, dresult, storeCalls,
                   ctrlVars, lockVars>>

\* runDestroy: orm.Destroy with the acl of the caller; the Store may fail,
\* and its answer is dropped
runDestroy ==
    /\ dpc = "runDestroy"
    /\ storeCalls' = Append(storeCalls, DestroyCall(destroy[1]))
    /\ \E failed \in BOOLEAN :
         /\ dstoreErr' = failed
         /\ store' = IF failed THEN store
                     ELSE OrmDestroy(store, DestroyCall(destroy[1]))
    /\ dtrace' = Append(dtrace, "orm.Destroy")
    /\ dpc' = ExecuteStep("runDestroy")
    /\ UNCHANGED <<destroy, dsnap, dhook, dresult, ctrlVars, lockVars>>

\* runAfterTrigger
runAfterTrigger ==
    /\ dpc = "runAfterTrigger"
    /\ dtrace' = Append(dtrace, "AfterDelete")
    /\ dpc' = ExecuteStep("runAfterTrigger")
    /\ UNCHANGED <<destroy, store, dsnap, dhook, dstoreErr, dresult, storeCalls,
                   ctrlVars, lockVars>>

\* Execute returns nil
ExecuteReturns ==
    /\ dpc = "done"
    /\ dresult' = <<>>
    /\ dpc' = "idle"
    /\ UNCHANGED <<destroy, store, dsnap, dtrace, dhook, dstoreErr, storeCalls,
                   ctrlVars, lockVars>>

Execute ==
    \/ handleSession
    \/ runBeforeTrigger
    \/ handleUserRoles
    \/ runDestroy
    \/ runAfterTrigger
    \/ ExecuteReturns

----------------------------------------------------------------------------
(* Specifications *)

Init ==
    /\ InitController
    /\ InitLockout({User("01", "joe", <<>>, <<>>)})
    /\ InitDestroy({Objects})

Next ==
    \/ Prepare(Requests)
    \/ HandleCreate
    \/ HandleUpdate
    \/ HandleDelete
    \/ HandleGet(GetResponses)
    \/ HandleFind(FindParams, FindResponses)

Spec == Init /\ [][Next]_vars

\* login attempts one at a time, from the records the tests create
LockoutInit == InitController /\ InitLockout(Fixtures) /\ InitDestroy({Objects})

LockoutNext == Attempt("p1") \/ Tick

LockoutSpec == LockoutInit /\ [][LockoutNext]_vars

\* login attempts one at a time, from a user who never failed to log in
BoundarySpec == Init /\ [][LockoutNext]_vars

\* one failed password check handled for process p, step by step
FailedAttempt(p) ==
    \/ LoginAttempt(p) /\ ~lreq'[p].loginSuccessful
    \/ NotLocked(p)
    \/ ReadIsSet(p)
    \/ InitCount(p)
    \/ IncrementRead(p)
    \/ IncrementWrite(p)
    \/ SetExpiration(p)

\* concurrent failed logins of the same user, one by each process, in any
\* interleaving
ConcurrentNext ==
    \/ FailedAttempt("p1")
    \/ FailedAttempt("p2")
    \/ FailedAttempt("p3")
    \/ Tick

ConcurrentSpec == LockoutInit /\ [][ConcurrentNext]_vars

\* one Destroy after another on a Store that begins with every object
DestroyNext == NewDestroy(Destroys) \/ Execute

DestroySpec == Init /\ [][DestroyNext]_vars

\* Get and Find requests, with every answer package rest may give
QueryNext ==
    \/ Prepare(QueryRequests)
    \/ HandleGet(QueryGetResponses)
    \/ HandleFind(FindParams, QueryFindResponses)

QuerySpec == Init /\ [][QueryNext]_vars

\* Prepare on requests that vary where the credentials come from, and the
\* creation of an object by those that are let through
CredentialNext == Prepare(CredentialRequests) \/ HandleCreate

CredentialSpec == Init /\ [][CredentialNext]_vars

----------------------------------------------------------------------------
(* Properties of Prepare and the handlers, checked under Spec *)

\* the request in hand
R == req[1]

\* the credentials Prepare takes from the headers, the Basic authorization
\* and the body of r
Extracted(r) ==
    BodyCredentials(WithBasicAuth(HeaderInfo(r), httpAuth(r.authorization)),
                    StripNoBody(DecodeBody(r).JSONBody), r.contentType)

Cred == Extracted(R).info

\* Prepare has run and got past the decoding of the body
Decoded == pc # "idle" /\ ~DecodeBody(R).invalid

\* the application id the headers and the Basic authorization give
HeaderAppID(r) == WithBasicAuth(HeaderInfo(r), httpAuth(r.authorization)).AppID

LoginEndpoint == <<"v1", "login", "">>

\* the lookup of a session token fails: not found, or expired
LookupFails(token) ==
    IF token \in DOMAIN Sessions THEN Sessions[token].expired ELSE TRUE

MasterAuth(installationID) ==
    <<[InstallationID |-> installationID, IsMaster |-> TRUE, User |-> <<>>]>>

AnonymousAuth(installationID) ==
    <<[InstallationID |-> installationID, IsMaster |-> FALSE, User |-> <<>>]>>

\* Non-master credentials with the right application id and client key
ClientRequest ==
    /\ Decoded
    /\ Cred.AppID = TConfig.AppID
    /\ Cred.MasterKey # TConfig.MasterKey
    /\ Cred.ClientKey = TConfig.ClientKey

(* C1: a request whose body was not refused as invalid JSON and whose
   application id (header, Basic authorization or body; none at all counts
   as a mismatch) differs from the configured one is answered with the
   403 "unauthorized" error, gets no Auth and reaches no handler, whatever
   its other credentials are. *)
C1_AppIdMismatchUnauthorized ==
    (Decoded /\ Cred.AppID # TConfig.AppID)
        => /\ resp = Unauthorized
           /\ resp.status = 403
           /\ Auth = <<>>
           /\ pc = "prepared"
           /\ restCalls = <<>>

\* a refused application id beside the right master key
C1_Witness ==
    /\ Decoded
    /\ Cred.AppID = "bad"
    /\ Cred.MasterKey = TConfig.MasterKey
    /\ resp = Unauthorized

(* C2: with the right application id and the configured master key the
   Auth is {IsMaster: true, User: nil} with the request's installation id,
   no session token is looked up and Prepare writes no response, whatever
   the client key and the session token are. *)
C2_MasterKeyShortCircuits ==
    (Decoded /\ Cred.AppID = TConfig.AppID /\ Cred.MasterKey = TConfig.MasterKey)
        => /\ Auth = MasterAuth(Cred.InstallationID)
           /\ lookups = <<>>
           /\ pc = "prepared" => resp = NoResponse

\* the master key beside a wrong client key and an expired session token
C2_Witness ==
    /\ Decoded
    /\ Cred.AppID = TConfig.AppID
    /\ Cred.MasterKey = TConfig.MasterKey
    /\ Cred.ClientKey # TConfig.ClientKey
    /\ Cred.SessionToken = "tok2"
    /\ Auth = MasterAuth(Cred.InstallationID)

(* C3: with the right application id and a master key that does not match,
   an Auth exists only if the client key is the configured one; otherwise
   the answer is the 403 "unauthorized" error, there is no Auth, no session
   token is looked up and no handler runs. *)
C3_ClientKeyRequired ==
    (Decoded /\ Cred.AppID = TConfig.AppID /\ Cred.MasterKey # TConfig.MasterKey)
        => /\ Auth # <<>> => Cred.ClientKey = TConfig.ClientKey
           /\ Cred.ClientKey # TConfig.ClientKey
                => /\ resp = Unauthorized
                   /\ resp.status = 403
                   /\ Auth = <<>>
                   /\ lookups = <<>>
                   /\ pc = "prepared"

\* a wrong client key beside a valid session token
C3_Witness ==
    /\ Decoded
    /\ Cred.AppID = TConfig.AppID
    /\ Cred.MasterKey # TConfig.MasterKey
    /\ Cred.ClientKey # TConfig.ClientKey
    /\ Cred.SessionToken = "tok1"
    /\ resp = Unauthorized

(* C4: a non-master request with the right application id and client key
   and no session token gets the anonymous Auth {IsMaster: false,
   User: nil} carrying its installation id, and nothing is looked up. *)
C4_AnonymousAuth ==
    (ClientRequest /\ Cred.SessionToken = "")
        => /\ Auth = AnonymousAuth(Cred.InstallationID)
           /\ lookups = <<>>
           /\ pc = "prepared" => resp = NoResponse

\* credentials taken from the body, without a session token
C4_Witness ==
    /\ ClientRequest
    /\ HeaderAppID(R) = ""
    /\ Cred.SessionToken = ""
    /\ Cred.InstallationID = "inst1"
    /\ Auth = AnonymousAuth("inst1")

(* C5: a non-master request (right application id and client key, not the
   login endpoint) with a session token has that token looked up; when the
   lookup fails the answer is the InvalidSessionToken error, there is no
   Auth and no handler runs; when it succeeds the Auth is not master and
   carries the user of the session. *)
C5_SessionTokenLookup ==
    (ClientRequest /\ Cred.SessionToken # "" /\ R.url # LoginEndpoint)
        => /\ lookups = <<Cred.SessionToken>>
           /\ IF LookupFails(Cred.SessionToken)
              THEN /\ resp = ServeJSON(200, ErrorMessageToMap("InvalidSessionToken",
                                                              "invalid session token"))
                   /\ Auth = <<>>
                   /\ pc = "prepared"
                   /\ restCalls = <<>>
              ELSE /\ Auth # <<>>
                   /\ ~Auth[1].IsMaster
                   /\ Auth[1].User = <<[objectId |-> Sessions[Cred.SessionToken].user]>>
                   /\ pc = "prepared" => resp = NoResponse

\* an expired token is refused
C5_Witness ==
    /\ ClientRequest
    /\ R.url # LoginEndpoint
    /\ Cred.SessionToken = "tok2"
    /\ lookups = <<"tok2">>
    /\ Auth = <<>>
    /\ resp.started

(* C6: on the login endpoint (a URL ending in "/login/") a non-master
   request with the right application id and client key has its session
   token cleared before the Auth is resolved: nothing is looked up, the
   Auth is anonymous, o.Info holds no token and Prepare writes no
   response, whatever the token was. *)
C6_LoginClearsToken ==
    (ClientRequest /\ R.url = LoginEndpoint)
        => /\ lookups = <<>>
           /\ Auth = AnonymousAuth(Cred.InstallationID)
           /\ Info[1].SessionToken = ""
           /\ resp = NoResponse

\* a login request carrying an expired token
C6_Witness ==
    /\ ClientRequest
    /\ R.url = LoginEndpoint
    /\ Cred.SessionToken = "tok2"
    /\ Auth = AnonymousAuth(Cred.InstallationID)

\* the bodies handed to rest.Create and rest.Update
ForwardedBodies ==
    { restCalls[i].body.m : i \in { j \in DOMAIN restCalls :
                                      restCalls[j].fn \in {"Create", "Update"} } }

(* C7 as stated: no body that reaches rest.Create or rest.Update contains
   a reserved request-override field, whether or not the application id
   came in a header. *)
C7_NoReservedFieldForwarded ==
    \A m \in ForwardedBodies : \A k \in ReservedKeys : m[k] = Absent

(* C7, amended: when no application id came from the headers or the Basic
   authorization, every reserved field the incoming body carries with a
   non-null value has been removed from the body that reaches rest.Create
   or rest.Update, and what is left of the reserved fields is at most a
   JSON null that the incoming body already had. *)
C7_ReservedFieldsStrippedFromBodyCredentials ==
    (pc # "idle" /\ HeaderAppID(R) = "")
        => \A m \in ForwardedBodies : \A k \in ReservedKeys :
              /\ NotNil(R.body.m, k) => m[k] = Absent
              /\ m[k] # Absent => (m[k] = Null /\ R.body.m[k] = Null)

\* body credentials consumed on the way to rest.Create
C7_Witness ==
    /\ pc = "done"
    /\ HeaderAppID(R) = ""
    /\ R.body.m["_MasterKey"] = "mk"
    /\ R.body.m["_SessionToken"] = "tok2"
    /\ \E i \in DOMAIN restCalls :
         /\ restCalls[i].fn = "Create"
         /\ \A k \in ReservedKeys : restCalls[i].body.m[k] = Absent

\* Prepare refuses r: invalid JSON, application id, client key, session token
PrepareRefuses(r) ==
    LET e == Extracted(r).info
        token == IF r.url = LoginEndpoint THEN "" ELSE e.SessionToken
    IN  \/ DecodeBody(r).invalid
        \/ e.AppID # TConfig.AppID
        \/ /\ e.MasterKey # TConfig.MasterKey
           /\ \/ e.ClientKey # TConfig.ClientKey
              \/ token # "" /\ LookupFails(token)

\* the answers of the handlers' own validation
ValidationErrors ==
    { ErrorMessageToMap("InvalidJSON", "request body is empty"),
      ErrorMessageToMap("InvalidQuery", "skip should be int"),
      ErrorMessageToMap("InvalidQuery", "limit should be int"),
      ErrorMessageToMap("InvalidJSON", "where should be valid json") }

(* C8: a request that Prepare refuses reaches no handler and makes no call
   into package rest; a request without a JSON body makes no call to
   rest.Create or rest.Update; a request answered with one of the
   handlers' validation errors has made no call into package rest. *)
C8_RejectedRequestsMakeNoRestCall ==
    /\ (pc # "idle" /\ PrepareRefuses(R)) => (restCalls = <<>> /\ pc = "prepared")
    /\ JSONBody.isNil => \A i \in DOMAIN restCalls : restCalls[i].fn \notin {"Create", "Update"}
    /\ (pc = "done" /\ resp.json # <<>> /\ resp.json[1] \in ValidationErrors)
          => restCalls = <<>>

\* a Create or Update without a body, answered by the handler itself
C8_Witness ==
    /\ pc = "done"
    /\ JSONBody.isNil
    /\ resp = EmptyBody
    /\ restCalls = <<>>

----------------------------------------------------------------------------
(* Properties of the account lockout, checked under LockoutSpec *)

(* C9: notLocked fails, with the locked-account error naming the
   configured duration, exactly when the user's record has an expiry later
   than now and a failed-login count of at least the threshold; in every
   other case it returns no error. *)
C9_NotLockedExactly ==
    [][\A p \in Procs :
         (lpc[p] = "notLocked" /\ lpc'[p] # "notLocked")
            => LET u == users[lreq[p].username]
                   locked == /\ u.lockoutExpiresAt # <<>>
                             /\ now < u.lockoutExpiresAt[1]
                             /\ u.failedLoginCount # <<>>
                             /\ u.failedLoginCount[1] >= Threshold
               IN  /\ locked => (lerr'[p] = <<LockedError>> /\ LockedError.minutes = Duration)
                   /\ ~locked => lerr'[p] = <<>>]_vars

\* notLocked has passed a count below the threshold beside an unexpired expiry
C9_Witness ==
    \E p \in Procs :
        /\ lpc[p] \in {"setFailedLoginCount", "isFailedLoginCountSet"}
        /\ lerr[p] = <<>>
        /\ users[lreq[p].username].failedLoginCount = <<1>>
        /\ users[lreq[p].username].lockoutExpiresAt # <<>>
        /\ now < users[lreq[p].username].lockoutExpiresAt[1]

(* C10: when the handling of a failed password check has finished, the
   user's failed-login count is 1 if it was not set and one more than it
   was otherwise; the lockout expiry is the time of the call plus the
   configured duration if the new count has reached the threshold and is
   what it was (absent, if it was absent) if not; the other fields of the
   record and the other users are unchanged. *)
C10_FailedAttemptCounts ==
    \A p \in Procs :
        (lpc[p] = "done" /\ ~lreq[p].loginSuccessful /\ lerr[p] = <<>>)
            => LET old == lsnap[p]
                   new == users[lreq[p].username]
               IN  /\ new.failedLoginCount =
                         <<IF old.failedLoginCount = <<>> THEN 1
                           ELSE old.failedLoginCount[1] + 1>>
                   /\ new.lockoutExpiresAt =
                         IF new.failedLoginCount[1] >= Threshold
                         THEN <<lnow[p] + Duration>>
                         ELSE old.lockoutExpiresAt
                   /\ new.objectId = old.objectId
                   /\ new.username = old.username
                   /\ new.password = old.password
                   /\ \A n \in Usernames \ {lreq[p].username} :
                         users[n] = User("02", "ann", <<>>, <<>>)

\* the third failed attempt sets the expiry
C10_Witness ==
    \E p \in Procs :
        /\ lpc[p] = "done"
        /\ ~lreq[p].loginSuccessful
        /\ lerr[p] = <<>>
        /\ lsnap[p].failedLoginCount = <<Threshold - 1>>
        /\ lsnap[p].lockoutExpiresAt = <<>>
        /\ users[lreq[p].username].failedLoginCount = <<Threshold>>
        /\ users[lreq[p].username].lockoutExpiresAt = <<lnow[p] + Duration>>
(* C11: a successful password check resets the count only after notLocked
   has passed.  While the reset is still to come no error was reported and
   the record is untouched; when the handling has finished, either it failed
   with the locked-account error and the record (count and expiry included)
   is what it was, or it reported no error, the count is 0 and every other
   field of the record, and every other user, is unchanged. *)
C11_SuccessResetsOnlyWhenNotLocked ==
    \A p \in Procs :
        LET old == lsnap[p]
            new == users[lreq[p].username]
        IN  /\ (lpc[p] = "setFailedLoginCount")
                  => (lreq[p].loginSuccessful /\ lerr[p] = <<>> /\ new = old)
            /\ (lpc[p] = "done" /\ lreq[p].loginSuccessful)
                  => /\ lerr[p] \in {<<>>, <<LockedError>>}
                     /\ (lerr[p] = <<LockedError>>)
                           => /\ new = old
                              /\ old.failedLoginCount # <<>>
                              /\ old.lockoutExpiresAt # <<>>
                     /\ (lerr[p] = <<>>)
                           => /\ new.failedLoginCount = <<0>>
                              /\ new.lockoutExpiresAt = old.lockoutExpiresAt
                              /\ new.objectId = old.objectId
                              /\ new.username = old.username
                              /\ new.password = old.password
                     /\ \A n \in Usernames \ {lreq[p].username} :
                           users[n] = User("02", "ann", <<>>, <<>>)

\* the right password was refused for a locked account, the record unchanged
C11_Witness ==
    \E p \in Procs :
        /\ lpc[p] = "done"
        /\ lreq[p].loginSuccessful
        /\ lerr[p] = <<LockedError>>
        /\ users[lreq[p].username] = lsnap[p]
        /\ lsnap[p].failedLoginCount = <<Threshold>>
        /\ now < lsnap[p].lockoutExpiresAt[1]

----------------------------------------------------------------------------
(* Properties of the lockout boundary, checked under BoundarySpec *)

(* C12: with a threshold of 3 and a duration of 5 minutes, from a user who
   never failed to log in: an attempt made while fewer than three failed
   attempts are on record is never refused as locked; once three are on
   record the expiry is set, to five minutes after the last counted
   failure, and every attempt made before it is refused with the
   locked-account error naming 5 minutes; an attempt made at or after the
   expiry passes notLocked again although nobody has reset the record. *)
C12_LockoutBoundary ==
    /\ [](\A p \in Procs :
            /\ (lpc[p] = "done" /\ lerr[p] # <<>>)
                  => /\ lsnap[p].failedLoginCount # <<>>
                     /\ lsnap[p].failedLoginCount[1] >= 3
            /\ \A n \in AttemptUsers :
                  (/\ \A q \in Procs : lpc[q] \in {"idle", "notLocked", "done"}
                   /\ users[n].failedLoginCount # <<>>
                   /\ users[n].failedLoginCount[1] >= 3)
                     => \E q \in Procs : users[n].lockoutExpiresAt = <<lnow[q] + 5>>)
    /\ [][\A p \in Procs :
            (lpc[p] = "notLocked" /\ lpc'[p] # "notLocked")
               => LET u == users[lreq[p].username]
                  IN  IF u.failedLoginCount = <<>> THEN lerr'[p] = <<>>
                      ELSE IF u.failedLoginCount[1] < 3 THEN lerr'[p] = <<>>
                      ELSE /\ u.lockoutExpiresAt # <<>>
                           /\ (now < u.lockoutExpiresAt[1])
                                 => /\ lerr'[p] = <<LockedError>>
                                    /\ LockedError.minutes = 5
                           /\ (now >= u.lockoutExpiresAt[1])
                                 => /\ lerr'[p] = <<>>
                                    /\ users' = users]_vars

\* an attempt has passed notLocked at the expiry, three failures on record
C12_Witness ==
    \E p \in Procs :
        /\ lpc[p] \in {"setFailedLoginCount", "isFailedLoginCountSet"}
        /\ lerr[p] = <<>>
        /\ users[lreq[p].username].failedLoginCount = <<3>>
        /\ users[lreq[p].username].lockoutExpiresAt = <<now>>

----------------------------------------------------------------------------
(* Properties of concurrent login attempts, checked under ConcurrentSpec *)

\* the processes that have begun an attempt
Started == {p \in Procs : lpc[p] # "idle"}

\* the attempts that were counted: finished and not refused as locked
Counted == {p \in Started : lpc[p] = "done" /\ lerr[p] = <<>>}

CountOf(u) == IF u.failedLoginCount = <<>> THEN 0 ELSE u.failedLoginCount[1]

\* the count before the first attempt began (counts only grow here, and the
\* first process to begin saw the initial record)
InitialCount ==
    CHOOSE c \in {CountOf(lsnap[p]) : p \in Started} :
        \A q \in Started : c <= CountOf(lsnap[q])

(* C13: when k failed attempts for the same user have been handled
   concurrently, in any interleaving of their steps, and all have finished,
   the user's count is k more than it was before the first began (k when it
   was unset): no increment is lost.  If the count has thereby reached the
   threshold the lockout expiry is set, to the time one of the counted
   attempts observed plus the duration. *)
C13_NoLostIncrement ==
    (Started # {} /\ \A p \in Started : lpc[p] = "done")
        => \A n \in AttemptUsers :
              /\ (Counted # {})
                    => users[n].failedLoginCount = <<InitialCount + Cardinality(Counted)>>
              /\ (Counted # {} /\ InitialCount + Cardinality(Counted) >= Threshold)
                    => \E p \in Counted : users[n].lockoutExpiresAt = <<lnow[p] + Duration>>
              /\ (Counted = {}) => \A p \in Started : users[n] = lsnap[p]

\* three concurrent attempts on a user without a count have made it 3 and
\* set the expiry
C13_Witness ==
    /\ \A p \in Procs : lpc[p] = "done" /\ lerr[p] = <<>>
    /\ \A p \in Procs : lsnap[p].failedLoginCount = <<>>
    /\ users["joe"].failedLoginCount = <<Cardinality(Procs)>>
    /\ users["joe"].lockoutExpiresAt # <<>>

----------------------------------------------------------------------------
(* Properties of Destroy, checked under DestroySpec *)

\* the Destroy in hand
D == destroy[1]

\* what the caller of the Destroy may write as: public, itself, its roles
Writers ==
    IF D.auth.User = <<>> THEN {"*"}
    ELSE {"*", D.auth.User[1].objectId} \cup Range(RolesOf(D.auth.User[1].objectId))

\* the objects of a Store that the Destroy's class and query select
Selected(objects) ==
    {o \in objects : o.className = D.className /\ o.objectId = D.query.objectId}

Returned == dpc = "idle" /\ destroy # <<>>

(* C14: when the BeforeDelete hook answers with an error, Execute aborts:
   no delete is issued to the Store, the AfterDelete hook is not run, the
   Store is what it was, and Execute returns the hook's error. *)
C14_BeforeDeleteErrorAborts ==
    (dhook = <<"error">>)
        => /\ storeCalls = <<>>
           /\ "orm.Destroy" \notin Range(dtrace)
           /\ "AfterDelete" \notin Range(dtrace)
           /\ store = dsnap
           /\ Returned => dresult = <<"error">>

(* C15: Execute issues one delete by the Destroy's class and query, and
   its options carry no acl for a master caller, the acl "*" alone for a
   caller without a user, and "*", the user's objectId and every role
   resolved for the user otherwise; so what a non-master caller's Destroy
   removes from the Store is writable by "*", by the caller or by one of
   the caller's roles. *)
C15_DeleteACL ==
    /\ [](/\ Len(storeCalls) <= 1
          /\ (dpc \in {"runAfterTrigger", "done"} \/ Returned)
                => Len(storeCalls) = 1
          /\ \A i \in 1..Len(storeCalls) :
                LET call == storeCalls[i]
                IN  /\ call.className = D.className
                    /\ call.query = D.query
                    /\ call.options.hasACL = ~D.auth.IsMaster
                    /\ (~D.auth.IsMaster /\ D.auth.User = <<>>)
                          => call.options.acl = <<"*">>
                    /\ (~D.auth.IsMaster /\ D.auth.User # <<>>)
                          => /\ Range(call.options.acl) = Writers
                             /\ call.options.acl[1] = "*"
                             /\ call.options.acl[2] = D.auth.User[1].objectId)
    /\ [][\A o \in store \ store' :
             /\ o \in Selected(store)
             /\ D.auth.IsMaster \/ o.write \cap Writers # {}]_vars

\* user u1 has deleted an object that only its role may write
C15_Witness ==
    /\ Returned
    /\ D.auth = [IsMaster |-> FALSE, User |-> <<[objectId |-> "u1"]>>,
                 UserRoles |-> <<"role:admin">>]
    /\ storeCalls[1].options.acl = <<"*", "u1", "role:admin">>
    /\ dsnap \ store = {Object("o3", "Game", {"role:admin"})}

(* C16: deleting is idempotent.  A Destroy whose class and query select no
   object of the Store leaves the Store as it was, and Execute returns no
   error whatever was selected; once the Store has carried a Destroy out,
   carrying the same Destroy out again would remove nothing (every object
   still selected is one the caller may not write). *)
C16_DeleteIdempotent ==
    /\ Returned => dresult = <<>>
    /\ (destroy # <<>> /\ Selected(dsnap) = {}) => store = dsnap
    /\ (destroy # <<>> /\ storeCalls # <<>> /\ ~dstoreErr)
          => \A o \in Selected(store) :
                ~D.auth.IsMaster /\ o.write \cap Writers = {}

\* the Destroy of an object that an earlier Destroy had removed has returned
C16_Witness ==
    /\ Returned
    /\ dresult = <<>>
    /\ ~dstoreErr
    /\ D.className = "Game"
    /\ D.query.objectId = "o1"
    /\ Object("o1", "Game", {"*"}) \notin dsnap
    /\ store = dsnap

\* the calls of one Execute, in the order of the code
ExpectedTrace ==
    IF D.auth.IsMaster
    THEN <<"handleSession", "BeforeDelete", "orm.Destroy", "AfterDelete">>
    ELSE <<"handleSession", "BeforeDelete", "GetUserRoles", "orm.Destroy", "AfterDelete">>

(* C20: within one Execute the steps run one after the other in the order
   session handling, BeforeDelete hook, role resolution (for a non-master
   caller only), Store delete, AfterDelete hook: what has run so far is
   always an initial part of that sequence, so the delete never precedes
   the BeforeDelete hook, the AfterDelete hook never precedes the delete,
   and each hook, and the delete, runs at most once; when Execute is done
   the whole sequence has run. *)
C20_ExecuteOrder ==
    destroy # <<>>
        => /\ Len(dtrace) <= Len(ExpectedTrace)
           /\ dtrace = SubSeq(ExpectedTrace, 1, Len(dtrace))
           /\ (dpc = "done" \/ Returned) => dtrace = ExpectedTrace
           /\ Len(storeCalls) = Cardinality({i \in 1..Len(dtrace) : dtrace[i] = "orm.Destroy"})

\* a non-master Destroy is done: all five steps have run, roles in between
C20_Witness ==
    /\ dpc = "done"
    /\ ~D.auth.IsMaster
    /\ dtrace = <<"handleSession", "BeforeDelete", "GetUserRoles", "orm.Destroy", "AfterDelete">>
    /\ Len(storeCalls) = 1

----------------------------------------------------------------------------
(* Properties of HandleGet and HandleFind, checked under QuerySpec *)

\* the handler has answered after calling fn of package rest
Answered(fn) ==
    /\ pc = "done"
    /\ restCalls # <<>>
    /\ restCalls[Len(restCalls)].fn = fn

\* the response's rows of a Find
FoundRows ==
    IF resp.json # <<>> /\ resp.json[1].kind = "results"
    THEN {resp.json[1].results.rows[i] : i \in 1..Len(resp.json[1].results.rows)}
    ELSE {}

\* the request is authenticated as the user with this objectId
AuthenticatedAs(id) == Auth[1].User # <<>> /\ Auth[1].User[1].objectId = id

(* C17: HandleGet answers ObjectNotFound whenever rest.Get returns no
   result, be the list absent or present and empty: it never indexes into
   an empty list (which panics), and what it answers is an error or one
   object, never an empty list. *)
C17_GetZeroResultsNotFound ==
    Answered("Get")
        => /\ resp # Panic
           /\ resp.status = 200
           /\ resp.json # <<>>
           /\ resp.json[1].kind \in {"error", "object"}

(* C18: in the response of a Find on _User a row carries a sessionToken
   only if the request is authenticated as the user with the row's
   objectId, and then it is the request's own session token; the rows of
   other users carry none. *)
C18_FindRedactsSessionTokens ==
    (Answered("Find") /\ ClassName = "_User")
        => \A row \in FoundRows :
              (row.sessionToken # Absent)
                 => /\ AuthenticatedAs(row.objectId)
                    /\ row.sessionToken = Info[1].SessionToken

(* C19: in the response of a Get on _User the stored sessionToken is never
   there; the object carries a sessionToken exactly when the request is
   authenticated as the user with the object's objectId, and its value is
   then the session token of the request. *)
C19_GetRedactsSessionToken ==
    (/\ Answered("Get")
     /\ ClassName = "_User"
     /\ resp.json # <<>>
     /\ resp.json[1].kind = "object")
        => LET row == resp.json[1].row
           IN  /\ row.sessionToken # "stored"
               /\ (row.sessionToken # Absent) <=> AuthenticatedAs(row.objectId)
               /\ (row.sessionToken # Absent)
                     => /\ row.sessionToken = Info[1].SessionToken
                        /\ row.sessionToken = req[1].hSessionToken
                        /\ row.sessionToken # ""

\* user u1 got its own object, with the token of the request
C19_Witness ==
    /\ Answered("Get")
    /\ ClassName = "_User"
    /\ AuthenticatedAs("u1")
    /\ resp.json # <<>>
    /\ resp.json[1].kind = "object"
    /\ resp.json[1].row = Row("u1", "tok1")

----------------------------------------------------------------------------
(* Properties of Destroy's error handling, checked under DestroySpec *)

(* C21: the AfterDelete hook runs only when the delete has been issued and
   the Store has carried it out; when the Store reported an error for the
   delete, AfterDelete is not run. *)
C21_AfterDeleteOnlyOnSuccess ==
    (destroy # <<>> /\ "AfterDelete" \in Range(dtrace))
        => /\ "orm.Destroy" \in Range(dtrace)
           /\ storeCalls # <<>>
           /\ ~dstoreErr

(* C22: when the Store reported an error for the delete, Execute returns
   an error to its caller instead of nil. *)
C22_StoreErrorSurfaced ==
    (Returned /\ storeCalls # <<>> /\ dstoreErr) => dresult # <<>>

----------------------------------------------------------------------------
(* Properties of where Prepare takes the credentials from, checked under
   CredentialSpec *)

\* the credentials after the headers and the Basic authorization
FromHeaders == WithBasicAuth(HeaderInfo(R), httpAuth(R.authorization))

\* the decoded body carries an _ApplicationId
BodyHasAppID ==
    /\ ~DecodeBody(R).JSONBody.isNil
    /\ DecodeBody(R).JSONBody.m["_ApplicationId"] \notin {Absent, Null}

(* C23: the credentials of the body are consulted only when the headers and
   the Basic authorization gave no application id and the body carries
   _ApplicationId.  With an application id from the headers, the master key,
   client key, installation id and session token of o.Info are those of the
   headers (the token possibly cleared), IsMaster needs the headers' master
   key and the only token looked up is the headers'; with none from the
   headers and none in the body the request is refused and nothing of the
   body is used. *)
C23_BodyCredentialsOnlyWithoutHeaderAppId ==
    Decoded
        => /\ (FromHeaders.AppID # "")
                 => /\ Info # <<>>
                    /\ Info[1].AppID = FromHeaders.AppID
                    /\ Info[1].MasterKey = FromHeaders.MasterKey
                    /\ Info[1].ClientKey = FromHeaders.ClientKey
                    /\ Info[1].InstallationID = FromHeaders.InstallationID
                    /\ Info[1].SessionToken \in {FromHeaders.SessionToken, ""}
                    /\ (Auth # <<>>)
                          => /\ Auth[1].IsMaster = (FromHeaders.MasterKey = TConfig.MasterKey)
                             /\ (Auth[1].User = <<>>)
                                   => Auth[1].InstallationID = FromHeaders.InstallationID
                             /\ (Auth[1].User # <<>>) => FromHeaders.SessionToken = "tok1"
                    /\ \A i \in 1..Len(lookups) : lookups[i] = FromHeaders.SessionToken
           /\ (FromHeaders.AppID = "" /\ ~BodyHasAppID)
                 => /\ resp = Unauthorized
                    /\ Auth = <<>>
                    /\ Info = <<>>
                    /\ lookups = <<>>

\* the headers gave the application id and no master key or token; the
\* body's _MasterKey and _SessionToken made the request neither master nor
\* user u1
C23_Witness ==
    /\ Decoded
    /\ R.hAppID = "app"
    /\ R.authorization = NoAuthorization
    /\ R.hMasterKey = ""
    /\ R.hSessionToken = ""
    /\ R.hClientKey = "ck"
    /\ R.body.kind = "object"
    /\ R.body.m["_MasterKey"] = "mk"
    /\ R.body.m["_SessionToken"] = "tok1"
    /\ Auth = AnonymousAuth("inst1")
    /\ JSONBody.m["_MasterKey"] = "mk"

\* the authorization header is "basic " (in any case) followed by the
\* base64 of exactly two parts separated by a colon
WellFormedBasic ==
    /\ ~R.authorization.empty
    /\ R.authorization.prefix \in {"basic ", "Basic ", "BASIC "}
    /\ R.authorization.encoded.valid
    /\ Len(R.authorization.encoded.parts) = 2

AppPart == R.authorization.encoded.parts[1]

KeyPart == R.authorization.encoded.parts[2]

\* o.Info is set and shows the credentials of the headers and the Basic
\* authorization: they gave an application id, so the body was not consulted
HeaderStageVisible ==
    /\ Decoded
    /\ Info # <<>>
    /\ WellFormedBasic => PartString(AppPart) # ""
    /\ ~WellFormedBasic => R.hAppID # ""

\* a well-formed Basic authorization with an empty first part, and no
\* _ApplicationId in the body
EmptyBasicAppID ==
    /\ Decoded
    /\ WellFormedBasic
    /\ PartString(AppPart) = ""
    /\ ~BodyHasAppID

(* C24, as stated: a well-formed Basic authorization replaces the
   application id by its first part, and its second part replaces the client
   key when it begins with "javascript-key=" and the master key otherwise
   when it is not empty (an empty first part leaves the request without an
   application id, whatever X-Parse-Application-Id is); any other
   authorization header leaves the credentials of the X-Parse headers as
   they are. *)
C24_BasicAuthTakesPrecedence ==
    /\ EmptyBasicAppID => resp = Unauthorized
    /\ HeaderStageVisible
        => IF WellFormedBasic
           THEN /\ Info[1].AppID = PartString(AppPart)
                /\ Info[1].ClientKey = IF KeyPart.js THEN KeyPart.text ELSE R.hClientKey
                /\ Info[1].MasterKey = IF ~KeyPart.js /\ KeyPart.text # ""
                                       THEN KeyPart.text ELSE R.hMasterKey
           ELSE /\ Info[1].AppID = R.hAppID
                /\ Info[1].ClientKey = R.hClientKey
                /\ Info[1].MasterKey = R.hMasterKey

(* C24, amended: as above, but the second part replaces the client key only
   when what follows "javascript-key=" is not empty; a second part that is
   "javascript-key=" alone replaces neither key. *)
C24_BasicAuthReplacesNonEmptyKeys ==
    /\ EmptyBasicAppID => resp = Unauthorized
    /\ HeaderStageVisible
        => IF WellFormedBasic
           THEN /\ Info[1].AppID = PartString(AppPart)
                /\ Info[1].ClientKey = IF KeyPart.js /\ KeyPart.text # ""
                                       THEN KeyPart.text ELSE R.hClientKey
                /\ Info[1].MasterKey = IF ~KeyPart.js /\ KeyPart.text # ""
                                       THEN KeyPart.text ELSE R.hMasterKey
           ELSE /\ Info[1].AppID = R.hAppID
                /\ Info[1].ClientKey = R.hClientKey
                /\ Info[1].MasterKey = R.hMasterKey

\* "app:javascript-key=" beside X-Parse-Client-Key "ck": the application id
\* of the header is replaced, the client key is kept
C24_Witness ==
    /\ Decoded
    /\ WellFormedBasic
    /\ R.hAppID = "bad"
    /\ R.hClientKey = "ck"
    /\ AppPart = Part(FALSE, "app")
    /\ KeyPart = Part(TRUE, "")
    /\ Info # <<>>
    /\ Info[1].AppID = "app"
    /\ Info[1].ClientKey = "ck"

====
